---- MODULE Spec2Model ----
(***************************************************************************)
(* Model of the eigenvalue engine (src/eigenvalue.js, EigenvalueCalculator) *)
(* and of the graph that feeds it (src/unnamed/part_000, Graph).           *)
(*                                                                         *)
(* Numbers.  A JavaScript Number is modelled as what it is, an IEEE 754    *)
(* double: the operations + - * / and Math.sqrt are computed exactly and   *)
(* rounded to nearest, ties to even, on big naturals.  Math.cbrt is taken  *)
(* as correctly rounded; Math.cos and Math.acos are computed in 60-bit     *)
(* fixed point and then rounded.  Signed zeros, infinities and subnormals  *)
(* are not modelled (the bounded inputs stay far from them); NaN is the    *)
(* value NaN.                                                              *)
(***************************************************************************)
EXTENDS Integers, Sequences, FiniteSets, TLC

Abs(x) == IF x < 0 THEN -x ELSE x

Max(a, b) == IF a >= b THEN a ELSE b

Min(a, b) == IF a <= b THEN a ELSE b

\* TRUE, once v has been computed: the steps of a routine run in program
\* order, each on the finished value of the step before
Forced(v) == v = v

\* the array of the elements f[1], f[2], ..., each computed once, now
Array(f) == SubSeq(f, 1, Len(f))

\* Apply(f, a): the value of routine f on the argument list a.  Every
\* routine of the engine, and every operation on numbers, is entered
\* through it; its definition follows the routines.
RECURSIVE Apply(_, _)

\* the call of routine f on the argument list a: the arguments are computed,
\* then the routine runs
Call(f, a) == IF Forced(a) THEN Apply(f, a) ELSE a

----------------------------------------------------------------------------
(* Big naturals: little-endian sequences of limbs below Radix, no leading  *)
(* zero limb; <<>> is zero.  They carry the exact integer arithmetic that  *)
(* the double-precision operations below need.                            *)

Radix == 2^12

\* The operations on big naturals as the definitions below write them;
\* BigAdd, BigSub, ... say what each computes.
BMul(a, b) == Apply("BigMul", <<a, b>>)

BMulSmall(a, k) == Apply("BigMulSmall", <<a, k>>)

BDivSmall(a, d) == Apply("BigDivSmall", <<a, d>>)

BDivMod(N, D) == Apply("BigDivMod", <<N, D>>)

BSqrt(N) == Apply("BigSqrt", <<N>>)

BCbrt(N) == Apply("BigCbrt", <<N>>)

\* limb i of a (from 1), zero outside its length
BLimb(a, i) == IF 1 <= i /\ i <= Len(a) THEN a[i] ELSE 0

\* s without its leading zero limbs
BTrim(s) ==
    IF Forced(s)
    THEN LET nz == {i \in 1..Len(s) : s[i] # 0}
         IN  IF nz = {} THEN <<>>
             ELSE SubSeq(s, 1, CHOOSE i \in nz : \A j \in nz : j <= i)
    ELSE s

\* the carry into limb i of a + b: limb i - 1 generates one, or passes on
\* the carry into it
RECURSIVE BCarryIn(_, _, _)
BCarryIn(a, b, i) ==
    /\ i > 1
    /\ \/ BLimb(a, i - 1) + BLimb(b, i - 1) >= Radix
       \/ /\ BLimb(a, i - 1) + BLimb(b, i - 1) = Radix - 1
          /\ BCarryIn(a, b, i - 1)

BAdd(a, b) ==
    IF Forced(a) /\ Forced(b)
    THEN BTrim([i \in 1..(Max(Len(a), Len(b)) + 1) |->
                  (BLimb(a, i) + BLimb(b, i) + (IF BCarryIn(a, b, i) THEN 1 ELSE 0)) % Radix])
    ELSE a

\* -1, 0, 1 as a < b, a = b, a > b
BCmp(a, b) ==
    IF Forced(a) /\ Forced(b)
    THEN IF Len(a) < Len(b) THEN -1
         ELSE IF Len(a) > Len(b) THEN 1
         ELSE LET df == {i \in 1..Len(a) : a[i] # b[i]}
              IN  IF df = {} THEN 0
                  ELSE LET t == CHOOSE i \in df : \A j \in df : j <= i
                       IN  IF a[t] < b[t] THEN -1 ELSE 1
    ELSE a

\* the borrow into limb i of a - b: limb i - 1 borrows, or passes on the
\* borrow into it
RECURSIVE BBorrowIn(_, _, _)
BBorrowIn(a, b, i) ==
    /\ i > 1
    /\ \/ BLimb(a, i - 1) < BLimb(b, i - 1)
       \/ /\ BLimb(a, i - 1) = BLimb(b, i - 1)
          /\ BBorrowIn(a, b, i - 1)

\* a - b for a >= b
BSub(a, b) ==
    IF Forced(a) /\ Forced(b)
    THEN BTrim([i \in 1..Len(a) |->
                  (a[i] - BLimb(b, i) - (IF BBorrowIn(a, b, i) THEN 1 ELSE 0) + Radix) % Radix])
    ELSE a

\* a * Radix^k
BLimbs(a, k) ==
    IF Forced(a)
    THEN IF a = <<>> THEN <<>> ELSE [i \in 1..k |-> 0] \o a
    ELSE a

\* limbs of any size below Radix^3 to a big natural: the three digits of
\* every limb, each at its place, added
BNorm(s) ==
    IF Forced(s)
    THEN BAdd(BAdd(BTrim([i \in 1..Len(s) |-> s[i] % Radix]),
                   BLimbs(BTrim([i \in 1..Len(s) |-> (s[i] \div Radix) % Radix]), 1)),
              BLimbs(BTrim([i \in 1..Len(s) |-> s[i] \div (Radix * Radix)]), 2))
    ELSE s

\* the big natural n, for n < Radix^3
BOf(n) == BTrim(<<n % Radix, (n \div Radix) % Radix, n \div (Radix * Radix)>>)

\* the sum of a[i] * b[k + 1 - i] over i in lo..hi
RECURSIVE BConv(_, _, _, _, _)
BConv(a, b, k, lo, hi) ==
    IF lo > hi THEN 0
    ELSE IF lo = hi THEN a[lo] * b[k + 1 - lo]
    ELSE LET mid == (lo + hi) \div 2
         IN  BConv(a, b, k, lo, mid) + BConv(a, b, k, mid + 1, hi)

BigMul(a, b) ==
    IF Forced(a) /\ Forced(b)
    THEN IF a = <<>> \/ b = <<>> THEN <<>>
         ELSE BNorm([k \in 1..(Len(a) + Len(b) - 1) |->
                       BConv(a, b, k, Max(1, k + 1 - Len(b)), Min(Len(a), k))])
    ELSE a

\* a * k for 0 <= k < 2^19
BigMulSmall(a, k) ==
    IF Forced(a)
    THEN BNorm([i \in 1..Len(a) |-> a[i] * k])
    ELSE a

\* <<the limbs lo..hi of the quotient, the remainder>> of dividing the
\* limbs a[lo..hi] below the running remainder r by d
RECURSIVE BDivFrom(_, _, _, _, _)
BDivFrom(a, d, lo, hi, r) ==
    IF lo = hi
    THEN LET t == r * Radix + a[lo] IN <<<<t \div d>>, t % d>>
    ELSE LET mid == (lo + hi) \div 2
             H == BDivFrom(a, d, mid + 1, hi, r)
             L == BDivFrom(a, d, lo, mid, H[2])
         IN  IF Forced(H) THEN <<L[1] \o H[1], L[2]>> ELSE <<>>

\* <<a \div d, a % d>> for 0 < d < 2^19
BigDivSmall(a, d) ==
    IF Forced(a)
    THEN IF a = <<>> THEN <<<<>>, 0>>
         ELSE LET qr == BDivFrom(a, d, 1, Len(a), 0)
              IN  <<BTrim(qr[1]), qr[2]>>
    ELSE a

\* the number of bits of a limb
BitLenSmall(n) == IF n = 0 THEN 0 ELSE CHOOSE k \in 1..12 : 2^(k - 1) <= n /\ n < 2^k

BBitLen(a) == IF a = <<>> THEN 0 ELSE 12 * (Len(a) - 1) + BitLenSmall(a[Len(a)])

\* a * 2^r for r < 12
BShlBits(a, r) ==
    IF Forced(a)
    THEN BTrim([i \in 1..(Len(a) + 1) |->
                  ((BLimb(a, i) * 2^r) % Radix) + ((BLimb(a, i - 1) * 2^r) \div Radix)])
    ELSE a

\* a * 2^k
BShl(a, k) == BLimbs(BShlBits(a, k % 12), k \div 12)

\* a \div 2^r for r < 12
BShrBits(a, r) ==
    IF Forced(a)
    THEN BTrim([i \in 1..Len(a) |->
                  (a[i] \div 2^r) + ((BLimb(a, i + 1) % 2^r) * 2^(12 - r))])
    ELSE a

\* a \div 2^k
BShr(a, k) ==
    IF Forced(a)
    THEN IF Len(a) <= k \div 12 THEN <<>>
         ELSE BShrBits(SubSeq(a, (k \div 12) + 1, Len(a)), k % 12)
    ELSE a

BOdd(a) == a # <<>> /\ a[1] % 2 = 1


\* R \div D for R < D * Radix and D with its top limb at least Radix / 2:
\* the quotient of the leading limbs is the digit or at most 2 above it
BDigit(R, D) ==
    LET n == Len(D)
        est == Min(Radix - 1, (BLimb(R, n + 1) * Radix + BLimb(R, n)) \div D[n])
    IN  IF BCmp(BMulSmall(D, est), R) <= 0 THEN est
        ELSE IF BCmp(BMulSmall(D, est - 1), R) <= 0 THEN est - 1
        ELSE est - 2

\* one step of the long division: digit d joins the quotient Q above its
\* limbs, and the remainder R1 loses d times D
BDivOut(Q, R1, D, d) == <<<<d>> \o Q, BSub(R1, BMulSmall(D, d))>>

BDivSub(Q, R1, D) == BDivOut(Q, R1, D, BDigit(R1, D))

\* the next limb of the dividend joins the remainder of qr = <<Q, R>>
BDivStep(qr, limb, D) == BDivSub(qr[1], BTrim(<<limb>> \o qr[2]), D)

\* the long division of the limbs N[1..i] below qr = <<the quotient so far,
\* the running remainder>> by D
RECURSIVE BDivLoop(_, _, _, _)
BDivLoop(N, D, i, qr) ==
    IF qr # qr \/ i = 0 THEN qr
    ELSE BDivLoop(N, D, i - 1, BDivStep(qr, N[i], D))

\* <<quotient, remainder>> once the division is done, the remainder
\* shifted back by s bits
BDivResult(qr, s) == <<BTrim(qr[1]), BShr(qr[2], s)>>

BDivNormal(N, D, s) == BDivResult(BDivLoop(N, D, Len(N), <<<<>>, <<>>>>), s)

\* <<N \div D, N % D>> for D > 0, both shifted left by s bits so that the
\* top limb of D is at least Radix / 2
BDivShifted(N, D, s) == BDivNormal(BShl(N, s), BShl(D, s), s)

BigDivMod(N, D) ==
    IF Forced(N) /\ Forced(D)
    THEN IF N = <<>> THEN <<<<>>, <<>>>>
         ELSE BDivShifted(N, D, 12 - BitLenSmall(D[Len(D)]))
    ELSE N

\* cand if its power pw is at most N, else acc
BRootKeep(N, acc, cand, pw) == IF BCmp(pw, N) <= 0 THEN cand ELSE acc

\* acc with one more bit, cand, if cand^pow <= N
BRootTry(N, pow, acc, cand) ==
    BRootKeep(N, acc, cand,
              IF pow = 2 THEN BMul(cand, cand) ELSE BMul(BMul(cand, cand), cand))

\* the largest r = acc + (bits lo..hi) with r^pow <= N, pow in {2, 3}
RECURSIVE BRootBits(_, _, _, _, _)
BRootBits(N, pow, lo, hi, acc) ==
    IF acc # acc \/ lo > hi THEN acc
    ELSE IF lo = hi THEN BRootTry(N, pow, acc, BAdd(acc, BShl(<<1>>, lo)))
    ELSE BRootBits(N, pow, lo, (lo + hi) \div 2,
                   BRootBits(N, pow, ((lo + hi) \div 2) + 1, hi, acc))

\* floor of the square root, of the cube root
BigSqrt(N) == BRootBits(N, 2, 0, BBitLen(N) \div 2, <<>>)

BigCbrt(N) == BRootBits(N, 3, 0, BBitLen(N) \div 3, <<>>)


----------------------------------------------------------------------------
(* IEEE 754 double precision, exactly: [neg, m, e] is (-1)^neg * m * 2^e   *)
(* with m a big natural of exactly 53 bits, or zero.  Every operation     *)
(* rounds its exact result to nearest, ties to even.  Used where the code  *)
(* compares a computed double with zero (=== 0, > 0), which the rounding   *)
(* of the last bit decides.                                                *)

DZero == [neg |-> FALSE, m |-> <<>>, e |-> 0]

\* The operations on doubles as the routines write them; the definitions
\* Round, Mul, Add, ... below say what each computes.
DRound(neg, M, e, sticky) == Apply("Round", <<neg, M, e, sticky>>)

DMul(x, y) == Apply("Mul", <<x, y>>)

DAdd(x, y) == Apply("Add", <<x, y>>)

DDivInt(x, k) == Apply("DivInt", <<x, k>>)

DDiv(x, y) == Apply("Div", <<x, y>>)

DSqrt(x) == Apply("Sqrt", <<x>>)

DCbrt(x) == Apply("Cbrt", <<x>>)

DCos(x) == Apply("Cos", <<x>>)

DAcos(y) == Apply("Acos", <<y>>)

\* q2 * 2^(e + k) as a double: q2 has 53 bits, or 54 after a carry
RoundCarry(neg, e, k, q2) ==
    IF BBitLen(q2) > 53
    THEN [neg |-> neg, m |-> BShr(q2, 1), e |-> e + k + 1]
    ELSE [neg |-> neg, m |-> q2, e |-> e + k]

\* the 53 leading bits q go one up if the part cut off is more than half
\* (c > 0), or half (c = 0) and something follows or q is odd
RoundUp(neg, e, k, q, c, sticky) ==
    RoundCarry(neg, e, k,
               IF c > 0 \/ (c = 0 /\ (sticky \/ BOdd(q))) THEN BAdd(q, <<1>>) ELSE q)

\* M of more than 53 bits is cut to its 53 leading bits q, k bits go
RoundCut(neg, M, e, sticky, k, q) ==
    RoundUp(neg, e, k, q, BCmp(BSub(M, BShl(q, k)), BShl(<<1>>, k - 1)), sticky)

\* M of L bits: shifted up to 53 bits, or cut down to them
RoundBits(neg, M, e, sticky, L) ==
    IF L <= 53
    THEN [neg |-> neg, m |-> BShl(M, 53 - L), e |-> e - (53 - L)]
    ELSE RoundCut(neg, M, e, sticky, L - 53, BShr(M, L - 53))

\* the double nearest to (-1)^neg * (M + f) * 2^e, where 0 <= f < 1 and
\* f > 0 iff sticky (sticky only with M of more than 53 bits)
Round(neg, M, e, sticky) ==
    IF M = <<>> THEN DZero ELSE RoundBits(neg, M, e, sticky, BBitLen(M))

DOfInt(n) == DRound(n < 0, BOf(Abs(n)), 0, FALSE)

DNeg(x) == IF x.m = <<>> THEN x ELSE [x EXCEPT !.neg = ~x.neg]

\* x * y
Mul(x, y) ==
    IF x.m = <<>> \/ y.m = <<>> THEN DZero
    ELSE DRound(x.neg # y.neg, BMul(x.m, y.m), x.e + y.e, FALSE)

\* the sum of the mantissas mx and my, both at exponent e, with their signs
AddMantissas(xneg, yneg, mx, my, e) ==
    IF xneg = yneg THEN DRound(xneg, BAdd(mx, my), e, FALSE)
    ELSE IF BCmp(mx, my) = 0 THEN DZero
    ELSE IF BCmp(mx, my) > 0 THEN DRound(xneg, BSub(mx, my), e, FALSE)
    ELSE DRound(yneg, BSub(my, mx), e, FALSE)

\* both mantissas at the smaller exponent e
AddAligned(x, y, e) ==
    AddMantissas(x.neg, y.neg, BShl(x.m, x.e - e), BShl(y.m, y.e - e), e)

\* x + y
Add(x, y) ==
    IF x.m = <<>> THEN y
    ELSE IF y.m = <<>> THEN x
    ELSE AddAligned(x, y, Min(x.e, y.e))

\* x - y
DSub(x, y) == DAdd(x, DNeg(y))

\* x / k for an integer 0 < k < 2^19
DivInt(x, k) ==
    IF x.m = <<>> THEN DZero
    ELSE LET qr == BDivSmall(BShl(x.m, 24), k)
         IN  DRound(x.neg, qr[1], x.e - 24, qr[2] # 0)

\* -1, 0, 1
DSign(x) == IF x.m = <<>> THEN 0 ELSE IF x.neg THEN -1 ELSE 1

\* x / y, y # 0
Div(x, y) ==
    IF x.m = <<>> THEN DZero
    ELSE LET qr == BDivMod(BShl(x.m, 60), y.m)
         IN  DRound(x.neg # y.neg, qr[1], x.e - y.e - 60, qr[2] # <<>>)

\* Math.sqrt(x), x >= 0
Sqrt(x) ==
    IF x.m = <<>> THEN DZero
    ELSE LET k == 58 + ((x.e - 58) % 2)
             wide == BShl(x.m, k)
             root == BSqrt(wide)
         IN  DRound(FALSE, root, (x.e - k) \div 2, BMul(root, root) # wide)

\* Math.cbrt(x)
Cbrt(x) ==
    IF x.m = <<>> THEN DZero
    ELSE LET k == 114 + ((x.e - 114) % 3)
             wide == BShl(x.m, k)
             root == BCbrt(wide)
         IN  DRound(x.neg, root, (x.e - k) \div 3, BMul(BMul(root, root), root) # wide)

\* Math.abs(x)
DAbs(x) == [x EXCEPT !.neg = FALSE]

\* x < y, x <= y, x = y as numbers
DLt(x, y) == DSign(DSub(x, y)) < 0

DLe(x, y) == DSign(DSub(x, y)) <= 0


----------------------------------------------------------------------------
(* Math.cos and Math.acos: 60-bit fixed point (a big natural a stands for  *)
(* a / 2^60), then rounded to a double.  acos inverts cos by bisection, so *)
(* it is accurate to about 2^-30 near arguments -1 and 1.                  *)

\* the one value that is no number (zero has e = 0)
NaN == [neg |-> FALSE, m |-> <<>>, e |-> 1]

FBits == 5 * 12

FMul(a, b) == Apply("FixMul", <<a, b>>)

FCos(t) == Apply("FixCos", <<t>>)

\* pi * 2^60, truncated
FPi == <<141, 1443, 2184, 3946, 579, 3>>

FixMul(a, b) == BShr(BMul(a, b), FBits)

\* |x| in fixed point
FOfD(x) ==
    IF x.e + FBits >= 0 THEN BShl(x.m, x.e + FBits) ELSE BShr(x.m, -(x.e + FBits))

\* signed fixed point [neg, v] to the nearest double
DOfF(f) == DRound(f.neg, f.v, -FBits, FALSE)

\* Math.PI
DPi == DOfF([neg |-> FALSE, v |-> FPi])

\* 1 and 2 * pi in fixed point
FOne == <<0, 0, 0, 0, 0, 1>>

FTwoPi == <<282, 2886, 272, 3797, 1159, 6>>

\* the sums st = [term, even, odd] of the cosine series of t after one more
\* term, term k, of absolute value next
FCosTerm(st, next, k) ==
    [term |-> next,
     even |-> IF k % 2 = 0 THEN BAdd(st.even, next) ELSE st.even,
     odd |-> IF k % 2 = 1 THEN BAdd(st.odd, next) ELSE st.odd]

\* the sums after the terms lo..hi, from the sums st after term lo - 1;
\* t2 is t * t and term k is term k - 1 times t2 / ((2k - 1) * 2k)
RECURSIVE FCosTerms(_, _, _, _)
FCosTerms(t2, st, lo, hi) ==
    IF st # st THEN st
    ELSE IF lo = hi
    THEN FCosTerm(st, BDivSmall(FMul(st.term, t2), (2 * lo - 1) * (2 * lo))[1], lo)
    ELSE FCosTerms(t2, FCosTerms(t2, st, lo, (lo + hi) \div 2), ((lo + hi) \div 2) + 1, hi)

\* even - odd, signed
FCosSum(st) ==
    IF BCmp(st.even, st.odd) >= 0 THEN [neg |-> FALSE, v |-> BSub(st.even, st.odd)]
    ELSE [neg |-> TRUE, v |-> BSub(st.odd, st.even)]

\* cos t for 0 <= t <= pi/2, signed: 16 terms of the series
FCosSmall(t) ==
    FCosSum(FCosTerms(FMul(t, t), [term |-> FOne, even |-> FOne, odd |-> <<>>], 1, 15))

FNeg(f) == IF f.v = <<>> THEN f ELSE [f EXCEPT !.neg = ~f.neg]

\* f, or -f if neg
FSigned(neg, f) == IF neg THEN FNeg(f) ELSE f

\* cos a for 0 <= a <= pi, signed: -cos(pi - a) beyond pi / 2
FCosHalf(a) ==
    FSigned(BCmp(BMulSmall(a, 2), FPi) > 0,
            FCosSmall(IF BCmp(BMulSmall(a, 2), FPi) > 0 THEN BSub(FPi, a) ELSE a))

\* cos r for 0 <= r < 2 * pi, signed: cos(2 * pi - r) beyond pi
FCosTurn(r) == FCosHalf(IF BCmp(r, FPi) > 0 THEN BSub(FTwoPi, r) ELSE r)

\* cos t for 0 <= t, signed
FixCos(t) == FCosTurn(IF BCmp(t, FTwoPi) < 0 THEN t ELSE BDivMod(t, FTwoPi)[2])

\* f >= g for signed fixed point
FGe(f, g) ==
    IF f.neg # g.neg THEN g.neg \/ (f.v = <<>> /\ g.v = <<>>)
    ELSE IF f.neg THEN BCmp(f.v, g.v) <= 0 ELSE BCmp(f.v, g.v) >= 0

\* acc with one more bit, cand, if cand <= pi and cos cand >= y
FAcosBit(y, acc, cand) ==
    IF BCmp(cand, FPi) <= 0 /\ FGe(FCos(cand), y) THEN cand ELSE acc

\* the largest t = acc + (bits lo..hi) with t <= pi and cos t >= y
RECURSIVE FAcosBits(_, _, _, _)
FAcosBits(y, lo, hi, acc) ==
    IF acc # acc THEN acc
    ELSE IF lo = hi THEN FAcosBit(y, acc, BAdd(acc, BShl(<<1>>, lo)))
    ELSE FAcosBits(y, lo, (lo + hi) \div 2, FAcosBits(y, ((lo + hi) \div 2) + 1, hi, acc))

\* Math.cos(x)
Cos(x) == IF x = NaN THEN NaN ELSE DOfF(FCos(FOfD(x)))

\* Math.acos(y): NaN outside -1..1
Acos(y) ==
    IF y = NaN \/ DLt(DOfInt(1), DAbs(y)) THEN NaN
    ELSE IF y = DOfInt(1) THEN DZero
    ELSE IF y = DOfInt(-1) THEN DPi
    ELSE DOfF([neg |-> FALSE,
               v |-> FAcosBits([neg |-> y.neg, v |-> FOfD(y)], 0, FBits + 1, <<>>)])


----------------------------------------------------------------------------
(* The engine, src/eigenvalue.js.  A matrix is a sequence of rows, a row a  *)
(* sequence of doubles; index i of the code is index i + 1 here.            *)

\* 1e-10
Tolerance == DDiv(DOfInt(1), DMul(DOfInt(100000), DOfInt(100000)))

\* the value of a field that was never assigned
Undefined == [neg |-> FALSE, m |-> <<>>, e |-> 2]

\* the values Math.random() returns, in order and round again: values of
\* [0, 1) in general position (no two equal, none zero)
SeedStream ==
    Array([k \in 1..13 |->
       DDivInt(DOfInt(<<12, 26, 2, 18, 22, 5, 29, 14, 8, 30, 19, 1, 27>>[k]), 32)])

\* new EigenvalueCalculator()
NewCalculator ==
    [tolerance |-> Tolerance, maxIterations |-> 1000, previousEigenvalue |-> Undefined]

\* array.sort((a, b) => b - a): x is put before the first smaller element
RECURSIVE Insert(_, _)
Insert(x, s) ==
    IF s = <<>> THEN <<x>>
    ELSE IF DLt(Head(s), x) THEN <<x>> \o s
    ELSE <<Head(s)>> \o Insert(x, Tail(s))

\* the array as pushed, the sort left out
Unsorted(s) == s

RECURSIVE SortDesc(_)
SortDesc(s) == IF s = <<>> THEN <<>> ELSE Insert(Head(s), SortDesc(Tail(s)))

\* sum += a[i] * b[i] for i from lo to hi in that order, sum starting at 0
RECURSIVE DotRange(_, _, _, _)
DotRange(a, b, lo, hi) ==
    IF hi < lo THEN DZero ELSE DAdd(DotRange(a, b, lo, hi - 1), DMul(a[hi], b[hi]))

\* a.reduce((sum, val, i) => sum + val * b[i], 0)
dotProduct(a, b) == DotRange(a, b, 1, Len(a))

\* Math.sqrt(v.reduce((sum, val) => sum + val * val, 0))
Norm(v) == DSqrt(DotRange(v, v, 1, Len(v)))

\* newVector[i] += matrix[i][j] * vector[j], for every i and j
MatVec(matrix, vector) == Array([i \in 1..Len(matrix) |-> dotProduct(matrix[i], vector)])

\* v.map(val => val / norm)
Scale(v, norm) == Array([i \in 1..Len(v) |-> DDiv(v[i], norm)])

\* the end of a pass without the test of convergence
PowerCheckUnconverged(tolerance, st, iter, newVector, eigenvalue, norm) ==
    IF DLt(norm, tolerance)
    THEN [st EXCEPT !.eigenvalue = eigenvalue, !.iterations = iter + 1, !.done = TRUE]
    ELSE [st EXCEPT !.eigenvalue = eigenvalue, !.iterations = iter + 1,
                    !.eigenvector = Scale(newVector, norm),
                    !.previousEigenvalue = eigenvalue]

\* the end of a pass with the test of convergence in the first pass too
PowerCheckStale(tolerance, st, iter, newVector, eigenvalue, norm) ==
    IF DLt(norm, tolerance)
    THEN [st EXCEPT !.eigenvalue = eigenvalue, !.iterations = iter + 1, !.done = TRUE]
    ELSE IF /\ st.previousEigenvalue # Undefined
            /\ DLt(DAbs(DSub(eigenvalue, st.previousEigenvalue)), tolerance)
    THEN [st EXCEPT !.eigenvalue = eigenvalue, !.iterations = iter + 1,
                    !.eigenvector = Scale(newVector, norm), !.done = TRUE]
    ELSE [st EXCEPT !.eigenvalue = eigenvalue, !.iterations = iter + 1,
                    !.eigenvector = Scale(newVector, norm),
                    !.previousEigenvalue = eigenvalue]

\* the end of a pass without the break on a norm below tolerance
PowerCheckUnbroken(tolerance, st, iter, newVector, eigenvalue, norm) ==
    IF /\ iter > 0
       /\ st.previousEigenvalue # Undefined
       /\ DLt(DAbs(DSub(eigenvalue, st.previousEigenvalue)), tolerance)
    THEN [st EXCEPT !.eigenvalue = eigenvalue, !.iterations = iter + 1,
                    !.eigenvector = Scale(newVector, norm), !.done = TRUE]
    ELSE [st EXCEPT !.eigenvalue = eigenvalue, !.iterations = iter + 1,
                    !.eigenvector = Scale(newVector, norm),
                    !.previousEigenvalue = eigenvalue]

\* the end of a pass of the loop of powerIteration: break on a small norm,
\* break on convergence after the first pass, or go on
PowerCheck(tolerance, st, iter, newVector, eigenvalue, norm) ==
    IF DLt(norm, tolerance)
    THEN [st EXCEPT !.eigenvalue = eigenvalue, !.iterations = iter + 1, !.done = TRUE]
    ELSE IF /\ iter > 0
            /\ st.previousEigenvalue # Undefined
            /\ DLt(DAbs(DSub(eigenvalue, st.previousEigenvalue)), tolerance)
    THEN [st EXCEPT !.eigenvalue = eigenvalue, !.iterations = iter + 1,
                    !.eigenvector = Scale(newVector, norm), !.done = TRUE]
    ELSE [st EXCEPT !.eigenvalue = eigenvalue, !.iterations = iter + 1,
                    !.eigenvector = Scale(newVector, norm),
                    !.previousEigenvalue = eigenvalue]

\* eigenvalue = this.dotProduct(vector, newVector); norm = Math.sqrt(...)
PowerEstimate(tolerance, st, iter, newVector) ==
    IF newVector # newVector THEN st
    ELSE PowerCheck(tolerance, st, iter, newVector,
                    dotProduct(st.eigenvector, newVector), Norm(newVector))

\* one pass of the loop of powerIteration, iteration number iter, on the
\* loop's variables st; previousEigenvalue is the calculator's field
PowerStep(tolerance, matrix, st, iter) ==
    PowerEstimate(tolerance, st, iter, MatVec(matrix, st.eigenvector))

\* the passes lo..hi of the loop, until one of them breaks
RECURSIVE PowerLoop(_, _, _, _, _)
PowerLoop(tolerance, matrix, st, lo, hi) ==
    IF st.done \/ lo > hi THEN st
    ELSE IF lo = hi THEN PowerStep(tolerance, matrix, st, lo)
    ELSE PowerLoop(tolerance, matrix,
                   PowerLoop(tolerance, matrix, st, lo, (lo + hi) \div 2),
                   ((lo + hi) \div 2) + 1, hi)

\* the loop's variables before the first pass
PowerStart(calc, vector) ==
    [eigenvalue |-> DZero, eigenvector |-> vector,
     previousEigenvalue |-> calc.previousEigenvalue,
     done |-> FALSE, iterations |-> 0]

\* powerIteration(matrix, maxIterations) on the calculator calc, with seed
\* the values Math.random() returns: the loop's variables at the return
\* (eigenvalue and eigenvector are the returned object, previousEigenvalue
\* is what the call leaves in the calculator)
powerIteration(calc, matrix, maxIterations, seed) ==
    PowerLoop(calc.tolerance, matrix, PowerStart(calc, Scale(seed, Norm(seed))),
              0, maxIterations - 1)

\* deflateMatrix with eigenvector[i] * eigenvector[i] for the outer product
DeflateByRow(matrix, eigenvalue, eigenvector) ==
    Array([i \in 1..Len(matrix) |->
       Array([j \in 1..Len(matrix) |->
          DSub(matrix[i][j], DMul(eigenvalue, DMul(eigenvector[i], eigenvector[i])))])])

\* deflateMatrix(matrix, eigenvalue, eigenvector)
deflateMatrix(matrix, eigenvalue, eigenvector) ==
    Array([i \in 1..Len(matrix) |->
       Array([j \in 1..Len(matrix) |->
          DSub(matrix[i][j], DMul(eigenvalue, DMul(eigenvector[i], eigenvector[j])))])])

\* eigenvalues2x2(matrix) without its test of the discriminant
Eigenvalues2x2Unbranched(matrix) ==
    LET trace == DAdd(matrix[1][1], matrix[2][2])
        det == DSub(DMul(matrix[1][1], matrix[2][2]), DMul(matrix[1][2], matrix[2][1]))
        sqrtDisc == DSqrt(DAbs(DSub(DMul(trace, trace), DMul(DOfInt(4), det))))
    IN  SortDesc(<<DDivInt(DAdd(trace, sqrtDisc), 2), DDivInt(DSub(trace, sqrtDisc), 2)>>)

\* eigenvalues2x2(matrix)
eigenvalues2x2(matrix) ==
    LET a == matrix[1][1]
        b == matrix[1][2]
        c == matrix[2][1]
        d == matrix[2][2]
        trace == DAdd(a, d)
        det == DSub(DMul(a, d), DMul(b, c))
        discriminant == DSub(DMul(trace, trace), DMul(DOfInt(4), det))
        realPart == DDivInt(trace, 2)
        sqrtDisc == DSqrt(discriminant)
        lambda1 == DDivInt(DAdd(trace, sqrtDisc), 2)
        lambda2 == DDivInt(DSub(trace, sqrtDisc), 2)
    IN  IF DSign(discriminant) < 0 THEN <<realPart, realPart>>
        ELSE SortDesc(<<lambda1, lambda2>>)

\* the one real root, three times
RealRoot3(realRoot) == <<realRoot, realRoot, realRoot>>

\* discriminant > 0: u + v - trace / 3 with u, v the cube roots of
\* -q / 2 + sqrt(discriminant) and -q / 2 - sqrt(discriminant)
Positive3(mq2, sqrtDisc, third) ==
    RealRoot3(DSub(DAdd(DCbrt(DAdd(mq2, sqrtDisc)), DCbrt(DSub(mq2, sqrtDisc))), third))

\* [root1, root2, root2].sort((a, b) => b - a)
TwoEqual3(root1, root2) == SortDesc(<<root1, root2, root2>>)

\* discriminant === 0, u the cube root of -q / 2
Zero3(u, third) == TwoEqual3(DSub(DMul(DOfInt(2), u), third), DSub(DNeg(u), third))

\* the three roots 2 * r * cos((theta + 2 * k * pi) / 3) - trace / 3, sorted
Angles3(twoR, theta, third) ==
    IF theta = NaN THEN <<NaN, NaN, NaN>>
    ELSE SortDesc(<<
        DSub(DMul(twoR, DCos(DDivInt(theta, 3))), third),
        DSub(DMul(twoR, DCos(DDivInt(DAdd(theta, DMul(DOfInt(2), DPi)), 3))), third),
        DSub(DMul(twoR, DCos(DDivInt(DAdd(theta, DMul(DOfInt(4), DPi)), 3))), third)>>)

\* discriminant < 0, r the square root of -p / 3
Negative3(q, r, third) ==
    Angles3(DMul(DOfInt(2), r),
            DAcos(DDiv(DNeg(q), DMul(DMul(DMul(DOfInt(2), r), r), r))),
            third)

\* the three branches on the discriminant
Branches3(p, q, discriminant, third) ==
    IF DSign(discriminant) > 0
    THEN Positive3(DDivInt(DNeg(q), 2), DSqrt(discriminant), third)
    ELSE IF DSign(discriminant) = 0
    THEN Zero3(DCbrt(DDivInt(DNeg(q), 2)), third)
    ELSE Negative3(q, DSqrt(DDivInt(DNeg(p), 3)), third)

\* Cardano's formula on the depressed cubic with coefficients p and q
Depressed3(p, q, third) ==
    Branches3(p, q,
              DAdd(DMul(DDivInt(q, 2), DDivInt(q, 2)),
                   DMul(DMul(DDivInt(p, 3), DDivInt(p, 3)), DDivInt(p, 3))),
              third)

\* the characteristic polynomial x^3 - trace x^2 + sumOfMinors x - det
Cubic3(trace, sumOfMinors, det) ==
    Depressed3(DSub(sumOfMinors, DDivInt(DMul(trace, trace), 3)),
               DAdd(DSub(det, DDivInt(DMul(trace, sumOfMinors), 3)),
                    DDivInt(DMul(DMul(DMul(DOfInt(2), trace), trace), trace), 27)),
               DDivInt(trace, 3))

\* eigenvalues3x3(matrix)
eigenvalues3x3(matrix) ==
    LET a == matrix[1][1]
        b == matrix[1][2]
        c == matrix[1][3]
        d == matrix[2][1]
        e == matrix[2][2]
        f == matrix[2][3]
        g == matrix[3][1]
        h == matrix[3][2]
        i == matrix[3][3]
    IN  Cubic3(DAdd(DAdd(a, e), i),
               DAdd(DAdd(DSub(DMul(a, e), DMul(b, d)), DSub(DMul(a, i), DMul(c, g))),
                    DSub(DMul(e, i), DMul(f, h))),
               DAdd(DSub(DMul(a, DSub(DMul(e, i), DMul(f, h))),
                         DMul(b, DSub(DMul(d, i), DMul(f, g)))),
                    DMul(c, DSub(DMul(d, h), DMul(e, g)))))

\* the n values Math.random() returns from position rng of the stream on
Random(rng, n) == Array([k \in 1..n |-> SeedStream[((rng + k - 1) % Len(SeedStream)) + 1]])

\* the value eigenvalues4x4 returns and what it leaves behind: the sorted
\* array, the calculator's previousEigenvalue, the position of the random
\* stream, and the passes each of the four power iterations made
Sorted4(rng, result1, result2, result3, result4) ==
    [eigenvalues |-> SortDesc(<<result1.eigenvalue, result2.eigenvalue,
                                result3.eigenvalue, result4.eigenvalue>>),
     previousEigenvalue |-> result4.previousEigenvalue,
     rng |-> (rng + 16) % Len(SeedStream),
     iterations |-> <<result1.iterations, result2.iterations,
                      result3.iterations, result4.iterations>>]

\* the calculator a power iteration finds after the iteration result before it
After(calc, result) == [calc EXCEPT !.previousEigenvalue = result.previousEigenvalue]

\* const result4 = this.powerIteration(A, 200)
Fourth4(calc, A, rng, result1, result2, result3) ==
    Sorted4(rng, result1, result2, result3,
            Call("powerIteration", <<After(calc, result3), A, 200, Call("Random", <<rng + 12, 4>>)>>))

\* A = this.deflateMatrix(A, result3.eigenvalue, result3.eigenvector)
Deflate3(calc, A, rng, result1, result2, result3) ==
    Fourth4(calc, Call("deflateMatrix", <<A, result3.eigenvalue, result3.eigenvector>>),
            rng, result1, result2, result3)

\* const result3 = this.powerIteration(A, 200)
Third4(calc, A, rng, result1, result2) ==
    Deflate3(calc, A, rng, result1, result2,
             Call("powerIteration", <<After(calc, result2), A, 200, Call("Random", <<rng + 8, 4>>)>>))

\* A = this.deflateMatrix(A, result2.eigenvalue, result2.eigenvector)
Deflate2(calc, A, rng, result1, result2) ==
    Third4(calc, Call("deflateMatrix", <<A, result2.eigenvalue, result2.eigenvector>>),
           rng, result1, result2)

\* const result2 = this.powerIteration(A, 200)
Second4(calc, A, rng, result1) ==
    Deflate2(calc, A, rng, result1,
             Call("powerIteration", <<After(calc, result1), A, 200, Call("Random", <<rng + 4, 4>>)>>))

\* the second power iteration on the matrix as passed, not deflated
Undeflated1(calc, matrix, rng, result1) == Second4(calc, matrix, rng, result1)

\* let A = this.deflateMatrix(matrix, result1.eigenvalue, result1.eigenvector)
Deflate1(calc, matrix, rng, result1) ==
    Second4(calc, Call("deflateMatrix", <<matrix, result1.eigenvalue, result1.eigenvector>>),
            rng, result1)

\* eigenvalues4x4(matrix) on the calculator calc, the random stream at rng
eigenvalues4x4(calc, matrix, rng) ==
    Deflate1(calc, matrix, rng,
             Call("powerIteration", <<calc, matrix, 200, Call("Random", <<rng, 4>>)>>))

\* eigenvalues.push(eigenvalue), and the matrix deflated if i < n - 1
FindAllNext(st, i, n, result) ==
    [A |-> IF i < n - 1
           THEN Call("deflateMatrix", <<st.A, result.eigenvalue, result.eigenvector>>)
           ELSE st.A,
     eigenvalues |-> Append(st.eigenvalues, result.eigenvalue),
     previousEigenvalue |-> result.previousEigenvalue,
     rng |-> (st.rng + n) % Len(SeedStream),
     iterations |-> Append(st.iterations, result.iterations)]

\* const result = this.powerIteration(A, 100)
FindAllStep(calc, st, i, n) ==
    FindAllNext(st, i, n,
                Call("powerIteration", <<After(calc, st), st.A, 100,
                                         Call("Random", <<st.rng, n>>)>>))

\* the loop of findAllEigenvalues from pass i on (i counts from 0), on the
\* loop's variables st
RECURSIVE FindAllLoop(_, _, _, _)
FindAllLoop(calc, st, i, n) ==
    IF st # st \/ i >= n THEN st
    ELSE FindAllLoop(calc, FindAllStep(calc, st, i, n), i + 1, n)

\* what a routine that runs no power iteration leaves behind
Closed(calc, rng, eigenvalues) ==
    [eigenvalues |-> eigenvalues, previousEigenvalue |-> calc.previousEigenvalue,
     rng |-> rng, iterations |-> <<>>]

\* simpleEigenvalueMethod(matrix)
simpleEigenvalueMethod(calc, matrix, rng) ==
    LET n == Len(matrix)
    IN  IF n = 2 THEN Closed(calc, rng, Call("eigenvalues2x2", <<matrix>>))
        ELSE IF n = 3 THEN Closed(calc, rng, Call("eigenvalues3x3", <<matrix>>))
        ELSE IF n = 4 THEN Call("eigenvalues4x4", <<calc, matrix, rng>>)
        ELSE Closed(calc, rng, <<>>)

\* return eigenvalues.sort((a, b) => b - a), after the loop
FindAllResult(st) ==
    [eigenvalues |-> SortDesc(st.eigenvalues),
     previousEigenvalue |-> st.previousEigenvalue,
     rng |-> st.rng, iterations |-> st.iterations]

\* findAllEigenvalues(matrix)
findAllEigenvalues(calc, matrix, rng) ==
    IF Len(matrix) <= 4 THEN Call("simpleEigenvalueMethod", <<calc, matrix, rng>>)
    ELSE FindAllResult(FindAllLoop(calc,
                                   [A |-> matrix, eigenvalues |-> <<>>,
                                    previousEigenvalue |-> calc.previousEigenvalue,
                                    rng |-> rng, iterations |-> <<>>],
                                   0, Len(matrix)))

\* smallMatrixEigenvalues(matrix)
smallMatrixEigenvalues(matrix) ==
    IF Len(matrix) = 2 THEN Call("eigenvalues2x2", <<matrix>>)
    ELSE IF Len(matrix) = 3 THEN Call("eigenvalues3x3", <<matrix>>)
    ELSE <<>>

\* calculateEigenvalues(matrix)
calculateEigenvalues(calc, matrix, rng) ==
    LET n == Len(matrix)
    IN  IF n = 0 THEN Closed(calc, rng, <<>>)
        ELSE IF n = 1 THEN Closed(calc, rng, <<matrix[1][1]>>)
        ELSE IF n = 2 THEN Closed(calc, rng, Call("eigenvalues2x2", <<matrix>>))
        ELSE IF n = 3 THEN Closed(calc, rng, Call("eigenvalues3x3", <<matrix>>))
        ELSE Call("findAllEigenvalues", <<calc, matrix, rng>>)

\* matrixMultiply(A, B)
matrixMultiply(A, B) ==
    Array([i \in 1..Len(A) |->
       Array([j \in 1..Len(B[1]) |->
          DotRange(A[i], Array([k \in 1..Len(A[1]) |-> B[k][j]]), 1, Len(A[1]))])])

\* Array(n).fill().map(() => Array(n).fill(0)), with 1 on the diagonal
Identity(n) == Array([i \in 1..n |-> Array([j \in 1..n |-> IF i = j THEN DOfInt(1) ELSE DZero])])

\* qrDecomposition working on the array it was passed
qrArgumentArray == "argument"

\* The arrays qrDecomposition works on are cells of a heap: "argument" is
\* the array the caller passed, "copy" the one matrix.map(row => [...row])
\* creates.  The local variable A names the new array.
qrWorkingArray == "copy"

\* the entries a[lo..n] updated by a[i] -= 2 * v[i] * dot
Reflect(a, v, dot, lo) ==
    Array([i \in 1..Len(a) |->
       IF i < lo THEN a[i] ELSE DSub(a[i], DMul(DMul(DOfInt(2), v[i]), dot))])

\* column j of the rows M
Column(M, j) == Array([i \in 1..Len(M) |-> M[i][j]])

\* M with its columns lo..n reflected from row k down: for each column j,
\* dot += v[i] * M[i][j] and then M[i][j] -= 2 * v[i] * dot, i from k
ReflectColumns(M, v, k, lo) ==
    LET n == Len(M)
        cols == Array([j \in 1..n |->
                   IF j < lo THEN Column(M, j)
                   ELSE Reflect(Column(M, j), v, DotRange(v, Column(M, j), k, n), k)])
    IN  IF Forced(cols) THEN Array([i \in 1..n |-> Array([j \in 1..n |-> cols[j][i]])]) ELSE M

\* Apply Householder transformation, Update Q: the pass has reflected the
\* working array and Q by v
QrApply(st, A, v, k) ==
    IF Forced(v)
    THEN [heap |-> [st.heap EXCEPT ![qrWorkingArray] = ReflectColumns(A, v, k, k)],
          Q |-> ReflectColumns(st.Q, v, k, 1),
          reflections |-> st.reflections + 1]
    ELSE st

\* Normalize v: v[i] /= vNorm if vNorm > tolerance
QrNormalize(tolerance, st, A, v, vNorm, k) ==
    QrApply(st, A, IF DLt(tolerance, vNorm) THEN Scale(v, vNorm) ELSE v, k)

\* the Householder vector v of column k: zero above k, A[k][k] - alpha at k,
\* the column below it
QrVector(tolerance, st, A, alpha, k) ==
    QrNormalize(tolerance, st, A,
                Array([i \in 1..Len(A) |->
                   IF i < k THEN DZero
                   ELSE IF i = k THEN DSub(A[k][k], alpha)
                   ELSE A[i][k]]),
                Norm(Array([i \in 1..Len(A) |->
                        IF i < k THEN DZero
                        ELSE IF i = k THEN DSub(A[k][k], alpha)
                        ELSE A[i][k]])),
                k)

\* if (norm < this.tolerance) continue; else alpha = -sign * norm
QrColumn(tolerance, st, A, norm, k) ==
    IF DLt(norm, tolerance) THEN st
    ELSE QrVector(tolerance, st, A,
                  DMul(DOfInt(IF DSign(A[k][k]) >= 0 THEN -1 ELSE 1), norm), k)

\* one pass of the loop of qrDecomposition, column k (from 1), on the heap
\* and Q: norm is the norm of the column from the diagonal down
QrStep(tolerance, st, k) ==
    QrColumn(tolerance, st, st.heap[qrWorkingArray],
             DSqrt(DotRange(Column(st.heap[qrWorkingArray], k),
                            Column(st.heap[qrWorkingArray], k),
                            k, Len(st.heap[qrWorkingArray]))),
             k)

\* the passes k..n of the loop
RECURSIVE QrLoop(_, _, _, _)
QrLoop(tolerance, st, k, n) ==
    IF st # st \/ k > n THEN st
    ELSE QrLoop(tolerance, QrStep(tolerance, st, k), k + 1, n)

\* Extract R matrix: the upper triangle of the working array
QrResult(st, A) ==
    [Q |-> st.Q,
     R |-> Array([i \in 1..Len(A) |-> Array([j \in 1..Len(A) |-> IF j >= i THEN A[i][j] ELSE DZero])]),
     matrix |-> st.heap.argument,
     reflections |-> st.reflections]

\* the state of qrDecomposition after its loop
QrDone(st) == QrResult(st, st.heap[qrWorkingArray])

\* qrDecomposition(matrix): the returned Q and R, the argument array as the
\* call leaves it, and the number of reflections applied
qrDecomposition(calc, matrix) ==
    QrDone(QrLoop(calc.tolerance,
                  [heap |-> [argument |-> matrix, copy |-> matrix],
                   Q |-> Identity(Len(matrix)), reflections |-> 0],
                  1, Len(matrix)))

\* A[i][i] for every i
Diagonal(A) == Array([i \in 1..Len(A) |-> A[i][i]])

\* A = this.matrixMultiply(R, Q)
QrAlgorithmNext(st, qr) ==
    [st EXCEPT !.A = Call("matrixMultiply", <<qr.R, qr.Q>>),
               !.iterations = st.iterations + 1]

\* one pass of the loop of qrAlgorithm without its test of convergence
QrAlgorithmStepUntested(calc, st) ==
    QrAlgorithmNext(st, Call("qrDecomposition", <<calc, st.A>>))

\* one pass of the loop of qrAlgorithm on the loop's variables st
QrAlgorithmStep(calc, st) ==
    IF \A i \in 1..(Len(st.A) - 1) : ~DLt(calc.tolerance, DAbs(st.A[i + 1][i]))
    THEN [st EXCEPT !.eigenvalues = Diagonal(st.A), !.done = TRUE]
    ELSE QrAlgorithmNext(st, Call("qrDecomposition", <<calc, st.A>>))

\* the passes lo..hi of the loop, until one of them breaks
RECURSIVE QrAlgorithmLoop(_, _, _, _)
QrAlgorithmLoop(calc, st, lo, hi) ==
    IF st.done \/ lo > hi THEN st
    ELSE IF lo = hi THEN QrAlgorithmStep(calc, st)
    ELSE QrAlgorithmLoop(calc, QrAlgorithmLoop(calc, st, lo, (lo + hi) \div 2),
                         ((lo + hi) \div 2) + 1, hi)

\* If no convergence, extract diagonal elements anyway; sort
QrAlgorithmResult(st) ==
    [eigenvalues |-> SortDesc(IF Len(st.eigenvalues) = 0 THEN Diagonal(st.A)
                              ELSE st.eigenvalues),
     converged |-> st.done,
     iterations |-> st.iterations]

\* qrAlgorithm(matrix, maxIterations): the returned array, whether the loop
\* saw convergence, and the number of decompositions
qrAlgorithm(calc, matrix, maxIterations) ==
    QrAlgorithmResult(
        QrAlgorithmLoop(calc,
                        [A |-> matrix, eigenvalues |-> <<>>, done |-> FALSE, iterations |-> 0],
                        0, maxIterations - 1))


----------------------------------------------------------------------------
(* The graph, src/unnamed/part_000.  A node is its id, an edge a record of  *)
(* its id, from, to and directed; positions on the canvas are left out.     *)

\* this.selectedNode === null; a selected node is held by its id
NoNode == -1

\* new Graph()
NewGraph ==
    [nodes |-> <<>>, isIsolated |-> <<>>, edges |-> <<>>, nodeIdCounter |-> 0,
     edgeIdCounter |-> 0, selectedNode |-> NoNode, mode |-> "addNode",
     isDirected |-> FALSE]

\* updateNodeConnectivity(): node.isIsolated of every node, kept beside nodes
updateNodeConnectivity(g) ==
    [g EXCEPT !.isIsolated =
        Array([i \in 1..Len(g.nodes) |->
                 ~ \E k \in 1..Len(g.edges) :
                      g.edges[k].from = g.nodes[i] \/ g.edges[k].to = g.nodes[i]])]

\* addNode(x, y): the node's id is the counter before its increment
addNode(g) ==
    updateNodeConnectivity(
        [g EXCEPT !.nodes = Append(g.nodes, g.nodeIdCounter),
                  !.isIsolated = Append(g.isIsolated, TRUE),
                  !.nodeIdCounter = g.nodeIdCounter + 1])

\* this.edges.find(...) of addEdge finds an edge
ExistingEdge(g, node1, node2) ==
    \E k \in 1..Len(g.edges) :
       IF g.isDirected
       THEN g.edges[k].from = node1 /\ g.edges[k].to = node2
       ELSE \/ (g.edges[k].from = node1 /\ g.edges[k].to = node2)
            \/ (g.edges[k].from = node2 /\ g.edges[k].to = node1)

\* addEdge(node1, node2) on the ids of the two nodes
addEdge(g, node1, node2) ==
    IF ExistingEdge(g, node1, node2) \/ node1 = node2 THEN g
    ELSE updateNodeConnectivity(
            [g EXCEPT !.edges = Append(g.edges,
                                       [id |-> g.edgeIdCounter, from |-> node1,
                                        to |-> node2, directed |-> g.isDirected]),
                      !.edgeIdCounter = g.edgeIdCounter + 1])

\* the nodes and the flags of the nodes other than nodeId
RECURSIVE WithoutNode(_, _, _)
WithoutNode(g, nodeId, k) ==
    IF k > Len(g.nodes) THEN [nodes |-> <<>>, isIsolated |-> <<>>]
    ELSE LET rest == WithoutNode(g, nodeId, k + 1)
         IN  IF g.nodes[k] # nodeId
             THEN [nodes |-> <<g.nodes[k]>> \o rest.nodes,
                   isIsolated |-> <<g.isIsolated[k]>> \o rest.isIsolated]
             ELSE rest

\* removeNode(nodeId)
removeNode(g, nodeId) ==
    LET KeepEdge(edge) == edge.from # nodeId /\ edge.to # nodeId
        kept == WithoutNode(g, nodeId, 1)
    IN  updateNodeConnectivity(
            [g EXCEPT !.nodes = kept.nodes,
                      !.isIsolated = kept.isIsolated,
                      !.edges = SelectSeq(g.edges, KeepEdge)])

\* removeEdge(edgeId)
removeEdge(g, edgeId) ==
    LET KeepEdge(edge) == edge.id # edgeId
    IN  updateNodeConnectivity([g EXCEPT !.edges = SelectSeq(g.edges, KeepEdge)])

\* clear(): isDirected is left as it is
clear(g) ==
    [g EXCEPT !.nodes = <<>>, !.isIsolated = <<>>, !.edges = <<>>,
              !.nodeIdCounter = 0, !.edgeIdCounter = 0, !.selectedNode = NoNode]

\* setMode(mode)
setMode(g, mode) == [g EXCEPT !.mode = mode, !.selectedNode = NoNode]

\* the part of handleClick for the mode 'addEdge', node the id of the node
\* getNodeAt found, NoNode if it found none
ClickAddEdge(g, node) ==
    IF node = NoNode THEN g
    ELSE IF g.selectedNode = NoNode THEN [g EXCEPT !.selectedNode = node]
    ELSE IF g.selectedNode # node
    THEN [addEdge(g, g.selectedNode, node) EXCEPT !.selectedNode = NoNode]
    ELSE g

\* the part of handleClick for the mode 'delete', node as before and edge
\* the id of the edge getEdgeAt found, NoNode if it found none
ClickDelete(g, node, edge) ==
    IF node # NoNode THEN removeNode(g, node)
    ELSE IF edge # NoNode THEN removeEdge(g, edge)
    ELSE g

\* handleClick(x, y), with what is found at (x, y)
handleClick(g, node, edge) ==
    IF g.mode = "addNode" THEN addNode(g)
    ELSE IF g.mode = "addEdge" THEN ClickAddEdge(g, node)
    ELSE IF g.mode = "delete" THEN ClickDelete(g, node, edge)
    ELSE g

\* the ids of the edges getEdgeAt can return: both ends are nodes
EdgesAt(g) ==
    {g.edges[k].id : k \in {l \in 1..Len(g.edges) :
                              /\ \E i \in 1..Len(g.nodes) : g.nodes[i] = g.edges[l].from
                              /\ \E i \in 1..Len(g.nodes) : g.nodes[i] = g.edges[l].to}}

\* setDirected(isDirected): every edge's flag follows the graph's
setDirected(g, isDirected) ==
    [g EXCEPT !.isDirected = isDirected,
              !.edges = Array([k \in 1..Len(g.edges) |->
                                 [g.edges[k] EXCEPT !.directed = isDirected]])]

\* this.nodes.findIndex(n => n.id === id), from 1; 0 for -1
FindIndex(nodes, id) ==
    IF \E i \in 1..Len(nodes) : nodes[i] = id
    THEN CHOOSE i \in 1..Len(nodes) :
           nodes[i] = id /\ \A j \in 1..(i - 1) : nodes[j] # id
    ELSE 0

\* getAdjacencyMatrix() without the mirrored entry of an undirected edge
AdjacencyOneWay(g) ==
    Array([i \in 1..Len(g.nodes) |-> Array([j \in 1..Len(g.nodes) |->
        IF \E k \in 1..Len(g.edges) :
              g.edges[k].from = g.nodes[i] /\ g.edges[k].to = g.nodes[j]
        THEN 1 ELSE 0])])

\* getAdjacencyMatrix()
getAdjacencyMatrix(g) ==
    LET n == Len(g.nodes)
        Sets(i, j) ==
            \E k \in 1..Len(g.edges) :
               LET fromIndex == FindIndex(g.nodes, g.edges[k].from)
                   toIndex == FindIndex(g.nodes, g.edges[k].to)
               IN  /\ fromIndex # 0
                   /\ toIndex # 0
                   /\ \/ (fromIndex = i /\ toIndex = j)
                      \/ (~g.isDirected /\ toIndex = i /\ fromIndex = j)
    IN  Array([i \in 1..n |-> Array([j \in 1..n |-> IF Sets(i, j) THEN 1 ELSE 0])])

\* degree += adjacency[i][j] for j up to k
RECURSIVE RowSum(_, _)
RowSum(row, k) == IF k = 0 THEN 0 ELSE RowSum(row, k - 1) + row[k]

\* getDegreeMatrix() counting every edge of the node, mirrored or not
DegreeByEdges(g) ==
    Array([i \in 1..Len(g.nodes) |-> Array([j \in 1..Len(g.nodes) |->
        IF i = j
        THEN Cardinality({k \in 1..Len(g.edges) :
                            g.nodes[i] \in {g.edges[k].from, g.edges[k].to}})
        ELSE 0])])

\* getDegreeMatrix()
getDegreeMatrix(g) ==
    LET n == Len(g.nodes)
        adjacency == getAdjacencyMatrix(g)
    IN  Array([i \in 1..n |-> Array([j \in 1..n |-> IF i = j THEN RowSum(adjacency[i], n) ELSE 0])])

\* getLaplacianMatrix()
getLaplacianMatrix(g) ==
    LET n == Len(g.nodes)
        adjacency == getAdjacencyMatrix(g)
        degree == getDegreeMatrix(g)
    IN  Array([i \in 1..n |-> Array([j \in 1..n |-> degree[i][j] - adjacency[i][j]])])

\* the Numbers of a matrix of small integers
Doubles(M) == Array([i \in 1..Len(M) |-> Array([j \in 1..Len(M[i]) |-> DOfInt(M[i][j])])])

\* dfsComponent(nodeId, visited, component), st the visited set and the
\* component; the edges lo..hi of this.edges.forEach.  An id is tested for
\* truth before it is followed: 0 is not followed.
RECURSIVE DfsEdges(_, _, _, _, _)
RECURSIVE dfsComponent(_, _, _)
dfsComponent(g, nodeId, st) ==
    LET entered == [visited |-> st.visited \cup {nodeId},
                    component |-> Append(st.component, nodeId)]
    IN  IF g.edges = <<>> THEN entered
        ELSE DfsEdges(g, nodeId, entered, 1, Len(g.edges))

DfsEdges(g, nodeId, st, lo, hi) ==
    IF lo = hi
    THEN LET edge == g.edges[lo]
             connected == edge.from = nodeId \/ edge.to = nodeId
             connectedNodeId == IF edge.from = nodeId THEN edge.to ELSE edge.from
         IN  IF connected /\ connectedNodeId # 0 /\ connectedNodeId \notin st.visited
             THEN dfsComponent(g, connectedNodeId, st)
             ELSE st
    ELSE LET mid == (lo + hi) \div 2
             first == DfsEdges(g, nodeId, st, lo, mid)
         IN  IF Forced(first) THEN DfsEdges(g, nodeId, first, mid + 1, hi) ELSE st

\* the loop of getConnectedComponents over the nodes from index k on
RECURSIVE ComponentsFrom(_, _, _, _)
ComponentsFrom(g, k, visited, components) ==
    IF k > Len(g.nodes) THEN components
    ELSE IF g.nodes[k] \in visited THEN ComponentsFrom(g, k + 1, visited, components)
    ELSE LET st == dfsComponent(g, g.nodes[k], [visited |-> visited, component |-> <<>>])
         IN  IF Forced(st)
             THEN ComponentsFrom(g, k + 1, st.visited, Append(components, st.component))
             ELSE components

\* getConnectedComponents() with a search that follows no edge
ComponentsPerNode(g) == Array([i \in 1..Len(g.nodes) |-> <<g.nodes[i]>>])

\* getConnectedComponents()
getConnectedComponents(g) == ComponentsFrom(g, 1, {}, <<>>)

\* calculateGraphEigenvalues(graph) without its test of graph.nodes.length
GraphEigenvaluesUnguarded(calc, g, rng) ==
    LET laplacian == Call("Doubles", <<Call("getLaplacianMatrix", <<g>>)>>)
        found == Call("calculateEigenvalues", <<calc, laplacian, rng>>)
    IN  [eigenvalues |-> found.eigenvalues, laplacian |-> laplacian,
         calls |-> <<"getLaplacianMatrix", "calculateEigenvalues">>,
         previousEigenvalue |-> found.previousEigenvalue, rng |-> found.rng]

\* calculateGraphEigenvalues(graph): the returned eigenvalues and laplacian,
\* the calls it made, and what it leaves behind
calculateGraphEigenvalues(calc, g, rng) ==
    LET laplacian == Call("Doubles", <<Call("getLaplacianMatrix", <<g>>)>>)
        found == Call("calculateEigenvalues", <<calc, laplacian, rng>>)
    IN  IF Len(g.nodes) = 0
        THEN [eigenvalues |-> <<>>, laplacian |-> <<>>, calls |-> <<>>,
              previousEigenvalue |-> calc.previousEigenvalue, rng |-> rng]
        ELSE [eigenvalues |-> found.eigenvalues, laplacian |-> laplacian,
              calls |-> <<"getLaplacianMatrix", "calculateEigenvalues">>,
              previousEigenvalue |-> found.previousEigenvalue, rng |-> found.rng]


----------------------------------------------------------------------------
(* Apply(f, a): routine f called on the arguments a.                        *)

Apply(f, a) ==
    CASE f = "Round" -> Round(a[1], a[2], a[3], a[4])
      [] f = "Mul" -> Mul(a[1], a[2])
      [] f = "Add" -> Add(a[1], a[2])
      [] f = "DivInt" -> DivInt(a[1], a[2])
      [] f = "Div" -> Div(a[1], a[2])
      [] f = "Sqrt" -> Sqrt(a[1])
      [] f = "Cbrt" -> Cbrt(a[1])
      [] f = "Cos" -> Cos(a[1])
      [] f = "Acos" -> Acos(a[1])
      [] f = "BigMul" -> BigMul(a[1], a[2])
      [] f = "BigMulSmall" -> BigMulSmall(a[1], a[2])
      [] f = "BigDivSmall" -> BigDivSmall(a[1], a[2])
      [] f = "BigDivMod" -> BigDivMod(a[1], a[2])
      [] f = "BigSqrt" -> BigSqrt(a[1])
      [] f = "BigCbrt" -> BigCbrt(a[1])
      [] f = "FixCos" -> FixCos(a[1])
      [] f = "FixMul" -> FixMul(a[1], a[2])
      [] f = "constructor" -> NewCalculator
      [] f = "calculateEigenvalues" -> calculateEigenvalues(a[1], a[2], a[3])
      [] f = "findAllEigenvalues" -> findAllEigenvalues(a[1], a[2], a[3])
      [] f = "eigenvalues2x2" -> eigenvalues2x2(a[1])
      [] f = "eigenvalues3x3" -> eigenvalues3x3(a[1])
      [] f = "eigenvalues4x4" -> eigenvalues4x4(a[1], a[2], a[3])
      [] f = "powerIteration" -> powerIteration(a[1], a[2], a[3], a[4])
      [] f = "deflateMatrix" -> deflateMatrix(a[1], a[2], a[3])
      [] f = "qrDecomposition" -> qrDecomposition(a[1], a[2])
      [] f = "qrAlgorithm" -> qrAlgorithm(a[1], a[2], a[3])
      [] f = "matrixMultiply" -> matrixMultiply(a[1], a[2])
      [] f = "calculateGraphEigenvalues" -> calculateGraphEigenvalues(a[1], a[2], a[3])
      [] f = "simpleEigenvalueMethod" -> simpleEigenvalueMethod(a[1], a[2], a[3])
      [] f = "smallMatrixEigenvalues" -> smallMatrixEigenvalues(a[1])
      [] f = "getLaplacianMatrix" -> getLaplacianMatrix(a[1])
      [] f = "getConnectedComponents" -> getConnectedComponents(a[1])
      [] f = "Doubles" -> Doubles(a[1])
      [] f = "Random" -> Random(a[1], a[2])

----------------------------------------------------------------------------
(* The state machine.  graph is the page's Graph object, calc the one       *)
(* EigenvalueCalculator (eigenvalueCalculator), rng the position of         *)
(* Math.random's stream, matrix the array a caller of the engine holds and  *)
(* passes, call the last call made and what it returned.                    *)

VARIABLES graph, calc, rng, matrix, call

vars == <<graph, calc, rng, matrix, call>>

NoCall == [op |-> "none"]

\* the graph after n addNode and one addEdge per pair of node ids
MakeGraph(n, pairs, directed) ==
    [nodes |-> Array([i \in 1..n |-> i - 1]),
     isIsolated |-> Array([i \in 1..n |->
                      ~ \E k \in 1..Len(pairs) : i - 1 \in {pairs[k][1], pairs[k][2]}]),
     edges |-> Array([k \in 1..Len(pairs) |->
                  [id |-> k - 1, from |-> pairs[k][1], to |-> pairs[k][2],
                   directed |-> directed]]),
     nodeIdCounter |-> n, edgeIdCounter |-> Len(pairs), selectedNode |-> NoNode,
     mode |-> "addNode", isDirected |-> directed]

\* the graphs the engine is run on
Graphs ==
    { NewGraph,
      MakeGraph(1, <<>>, FALSE),
      MakeGraph(2, <<>>, FALSE),
      MakeGraph(2, <<<<0, 1>>>>, FALSE),
      MakeGraph(2, <<<<0, 1>>>>, TRUE),
      MakeGraph(3, <<>>, FALSE),
      MakeGraph(3, <<<<1, 2>>>>, FALSE),
      MakeGraph(3, <<<<0, 1>>, <<1, 2>>>>, FALSE),
      MakeGraph(3, <<<<0, 1>>, <<1, 2>>, <<2, 0>>>>, FALSE),
      MakeGraph(3, <<<<0, 1>>, <<1, 2>>, <<2, 0>>>>, TRUE),
      MakeGraph(4, <<<<0, 1>>, <<2, 3>>>>, FALSE),
      MakeGraph(4, <<<<1, 2>>, <<2, 3>>, <<3, 1>>>>, FALSE),
      MakeGraph(4, <<<<0, 1>>, <<1, 2>>, <<2, 3>>>>, FALSE),
      MakeGraph(4, <<<<0, 1>>, <<0, 2>>, <<0, 3>>, <<1, 2>>, <<1, 3>>, <<2, 3>>>>, FALSE),
      MakeGraph(5, <<>>, FALSE),
      MakeGraph(5, <<<<0, 1>>, <<0, 2>>, <<0, 3>>, <<0, 4>>, <<1, 2>>, <<1, 3>>,
                     <<1, 4>>, <<2, 3>>, <<2, 4>>, <<3, 4>>>>, FALSE) }

\* the matrices of small integers the engine's routines are called on
Matrices ==
    { <<>>,
      <<<<0>>>>, <<<<2>>>>, <<<<-1>>>>,
      <<<<1, -1>>, <<-1, 1>>>>,
      <<<<0, 0>>, <<0, 0>>>>,
      <<<<2, 0>>, <<0, 3>>>>,
      <<<<1, 0>>, <<0, 1>>>>,
      <<<<0, 1>>, <<-1, 0>>>>,
      <<<<1, 2>>, <<3, 4>>>>,
      <<<<2, 1>>, <<1, 3>>>>,
      <<<<1, -2>>, <<1, 3>>>>,
      <<<<0, 1>>, <<1, 0>>>>,
      <<<<-1, 0>>, <<2, 0>>>>,
      <<<<2, -1, -1>>, <<-1, 2, -1>>, <<-1, -1, 2>>>>,
      <<<<0, 0, 0>>, <<0, 0, 0>>, <<0, 0, 0>>>>,
      <<<<1, 2, 0>>, <<0, 1, 0>>, <<0, 0, 1>>>>,
      <<<<1, -1, 0>>, <<0, 1, -1>>, <<-1, 0, 1>>>>,
      <<<<2, 0, 3>>, <<0, 3, 3>>, <<3, 2, -2>>>>,
      <<<<0, -1, 1>>, <<-1, -2, -1>>, <<2, 2, 1>>>>,
      <<<<0, 0, 2>>, <<0, 3, 0>>, <<1, 0, 0>>>>,
      <<<<0, 0, 0, 0>>, <<0, 0, 0, 0>>, <<0, 0, 0, 0>>, <<0, 0, 0, 0>>>>,
      <<<<8, 0, 0, 0>>, <<0, 1, 0, 0>>, <<0, 0, 0, 0>>, <<0, 0, 0, 0>>>>,
      <<<<8, 0, 0, 0, 0>>, <<0, 1, 0, 0, 0>>, <<0, 0, 0, 0, 0>>, <<0, 0, 0, 0, 0>>,
        <<0, 0, 0, 0, 0>>>>,
      <<<<0, 0, 0, 0, 0>>, <<0, 0, 0, 0, 0>>, <<0, 0, 0, 0, 0>>, <<0, 0, 0, 0, 0>>,
        <<0, 0, 0, 0, 0>>>> }

\* the iteration caps the loops are called with
Caps == {0, 1, 3}

\* what a call leaves in the calculator
Left(r) == [calc EXCEPT !.previousEigenvalue = r.previousEigenvalue]

----------------------------------------------------------------------------
(* The engine called on the caller's matrix, one routine per action.  A     *)
(* routine that holds no assignment to an entry of its argument leaves      *)
(* matrix as it is; qrDecomposition leaves what its heap holds for it.      *)

CalculateEigenvalues ==
    /\ call.op = "none"
    /\ call' = [op |-> "calculateEigenvalues", arg |-> matrix, before |-> calc,
                drawn |-> rng,
                ret |-> Call("calculateEigenvalues", <<calc, matrix, rng>>)]
    /\ calc' = Left(call'.ret)
    /\ rng' = call'.ret.rng
    /\ UNCHANGED <<graph, matrix>>

FindAllEigenvalues ==
    /\ call.op = "none"
    /\ Len(matrix) >= 2
    /\ call' = [op |-> "findAllEigenvalues", arg |-> matrix, before |-> calc,
                ret |-> Call("findAllEigenvalues", <<calc, matrix, rng>>)]
    /\ calc' = Left(call'.ret)
    /\ rng' = call'.ret.rng
    /\ UNCHANGED <<graph, matrix>>

Eigenvalues2x2 ==
    /\ call.op = "none"
    /\ Len(matrix) = 2
    /\ call' = [op |-> "eigenvalues2x2", arg |-> matrix, before |-> calc,
                ret |-> [eigenvalues |-> Call("eigenvalues2x2", <<matrix>>)]]
    /\ UNCHANGED <<graph, calc, rng, matrix>>

Eigenvalues3x3 ==
    /\ call.op = "none"
    /\ Len(matrix) = 3
    /\ call' = [op |-> "eigenvalues3x3", arg |-> matrix, before |-> calc,
                ret |-> [eigenvalues |-> Call("eigenvalues3x3", <<matrix>>)]]
    /\ UNCHANGED <<graph, calc, rng, matrix>>

Eigenvalues4x4 ==
    /\ call.op = "none"
    /\ Len(matrix) = 4
    /\ call' = [op |-> "eigenvalues4x4", arg |-> matrix, before |-> calc,
                ret |-> Call("eigenvalues4x4", <<calc, matrix, rng>>)]
    /\ calc' = Left(call'.ret)
    /\ rng' = call'.ret.rng
    /\ UNCHANGED <<graph, matrix>>

PowerIteration ==
    /\ call.op = "none"
    /\ Len(matrix) >= 1
    /\ \E maxIterations \in Caps :
          LET seed == Call("Random", <<rng, Len(matrix)>>)
          IN  call' = [op |-> "powerIteration", arg |-> matrix, before |-> calc,
                       cap |-> maxIterations, seed |-> seed,
                       ret |-> Call("powerIteration",
                                     <<calc, matrix, maxIterations, seed>>)]
    /\ calc' = Left(call'.ret)
    /\ rng' = (rng + Len(matrix)) % Len(SeedStream)
    /\ UNCHANGED <<graph, matrix>>

DeflateMatrix ==
    /\ call.op = "none"
    /\ Len(matrix) >= 1
    /\ LET eigenvalue == matrix[1][1]
           eigenvector == Call("Random", <<rng, Len(matrix)>>)
       IN  call' = [op |-> "deflateMatrix", arg |-> matrix, before |-> calc,
                    eigenvalue |-> eigenvalue, eigenvector |-> eigenvector,
                    ret |-> Call("deflateMatrix", <<matrix, eigenvalue, eigenvector>>)]
    /\ UNCHANGED <<graph, calc, rng, matrix>>

QrDecomposition ==
    /\ call.op = "none"
    /\ call' = [op |-> "qrDecomposition", arg |-> matrix, before |-> calc,
                ret |-> Call("qrDecomposition", <<calc, matrix>>)]
    /\ matrix' = call'.ret.matrix
    /\ UNCHANGED <<graph, calc, rng>>

QrAlgorithm ==
    /\ call.op = "none"
    /\ Len(matrix) <= 3
    /\ \E maxIterations \in Caps :
          call' = [op |-> "qrAlgorithm", arg |-> matrix, before |-> calc,
                   cap |-> maxIterations,
                   ret |-> Call("qrAlgorithm", <<calc, matrix, maxIterations>>)]
    /\ UNCHANGED <<graph, calc, rng, matrix>>

MatrixMultiply ==
    /\ call.op = "none"
    /\ Len(matrix) >= 1
    /\ call' = [op |-> "matrixMultiply", arg |-> matrix, before |-> calc,
                ret |-> Call("matrixMultiply", <<matrix, matrix>>)]
    /\ UNCHANGED <<graph, calc, rng, matrix>>

\* analyzeEigenvalues of the page: the engine on the graph's Laplacian
CalculateGraphEigenvalues ==
    /\ call.op = "none"
    /\ call' = [op |-> "calculateGraphEigenvalues", arg |-> graph, before |-> calc,
                ret |-> Call("calculateGraphEigenvalues", <<calc, graph, rng>>)]
    /\ calc' = Left(call'.ret)
    /\ rng' = call'.ret.rng
    /\ UNCHANGED <<graph, matrix>>

\* a caller with a matrix of its own, or the page with a graph
InitEngine ==
    /\ calc = Call("constructor", <<>>)
    /\ rng = 0
    /\ call = NoCall
    /\ \/ graph = NewGraph /\ matrix \in {Call("Doubles", <<M>>) : M \in Matrices}
       \/ graph \in Graphs /\ matrix = <<>>

NextEngine ==
    \/ CalculateEigenvalues
    \/ FindAllEigenvalues
    \/ Eigenvalues2x2
    \/ Eigenvalues3x3
    \/ Eigenvalues4x4
    \/ PowerIteration
    \/ DeflateMatrix
    \/ QrDecomposition
    \/ QrAlgorithm
    \/ MatrixMultiply
    \/ CalculateGraphEigenvalues

SpecEngine == InitEngine /\ [][NextEngine]_vars

\* the closed forms: a caller with a matrix of order up to 3, or the page
\* with a graph of up to 3 nodes
InitClosed ==
    /\ InitEngine
    /\ Len(matrix) <= 3
    /\ Len(graph.nodes) <= 3

NextClosed ==
    \/ CalculateEigenvalues
    \/ Eigenvalues2x2
    \/ Eigenvalues3x3
    \/ CalculateGraphEigenvalues

SpecClosed == InitClosed /\ [][NextClosed]_vars

\* the iterative routines on the caller's matrix
NextPower ==
    \/ CalculateEigenvalues
    \/ FindAllEigenvalues
    \/ Eigenvalues4x4
    \/ PowerIteration
    \/ DeflateMatrix

SpecPower == InitEngine /\ [][NextPower]_vars

\* the Householder routines on the caller's matrix
NextQr ==
    \/ QrDecomposition
    \/ QrAlgorithm
    \/ MatrixMultiply

SpecQr == InitEngine /\ [][NextQr]_vars

\* values of SeedStream drawn before the caller stops calling
MaxDraws == 3

\* the caller takes the result of powerIteration and goes on to its next
\* call on the same calculator
Return ==
    /\ call.op = "powerIteration"
    /\ rng <= MaxDraws
    /\ call' = NoCall
    /\ UNCHANGED <<graph, calc, rng, matrix>>

\* a caller of powerIteration with a matrix of order 1 or 2
InitCalls ==
    /\ InitEngine
    /\ Len(matrix) \in {1, 2}
    /\ matrix[1][1] # DZero

NextCalls ==
    \/ PowerIteration
    \/ Return

SpecCalls == InitCalls /\ [][NextCalls]_vars

----------------------------------------------------------------------------
(* The page editing its graph, one method of Graph per action.              *)

\* node ids and edge ids handed out before the editing stops
MaxNodeIds == 3

MaxEdgeIds == 3

AddNode ==
    /\ graph.nodeIdCounter < MaxNodeIds
    /\ graph' = addNode(graph)
    /\ UNCHANGED <<calc, rng, matrix, call>>

AddEdge ==
    /\ graph.edgeIdCounter < MaxEdgeIds
    /\ \E i \in 1..Len(graph.nodes), j \in 1..Len(graph.nodes) :
          graph' = addEdge(graph, graph.nodes[i], graph.nodes[j])
    /\ UNCHANGED <<calc, rng, matrix, call>>

RemoveNode ==
    /\ \E i \in 1..Len(graph.nodes) : graph' = removeNode(graph, graph.nodes[i])
    /\ UNCHANGED <<calc, rng, matrix, call>>

RemoveEdge ==
    /\ \E k \in 1..Len(graph.edges) : graph' = removeEdge(graph, graph.edges[k].id)
    /\ UNCHANGED <<calc, rng, matrix, call>>

Clear ==
    /\ graph' = clear(graph)
    /\ UNCHANGED <<calc, rng, matrix, call>>

SetDirected ==
    /\ \E isDirected \in BOOLEAN : graph' = setDirected(graph, isDirected)
    /\ UNCHANGED <<calc, rng, matrix, call>>

InitGraph ==
    /\ graph = NewGraph
    /\ calc = Call("constructor", <<>>)
    /\ rng = 0
    /\ matrix = <<>>
    /\ call = NoCall

NextGraph ==
    \/ AddNode
    \/ AddEdge
    \/ RemoveNode
    \/ RemoveEdge
    \/ Clear
    \/ SetDirected

SpecGraph == InitGraph /\ [][NextGraph]_vars

\* a click on the canvas: on a node, on an edge, or on neither
HandleClick ==
    /\ graph.mode = "addNode" => graph.nodeIdCounter < MaxNodeIds
    /\ graph.mode = "addEdge" => graph.edgeIdCounter < MaxEdgeIds
    /\ \/ \E i \in 1..Len(graph.nodes) :
             graph' = handleClick(graph, graph.nodes[i], NoNode)
       \/ \E edge \in EdgesAt(graph) : graph' = handleClick(graph, NoNode, edge)
       \/ graph' = handleClick(graph, NoNode, NoNode)
    /\ UNCHANGED <<calc, rng, matrix, call>>

SetMode ==
    /\ \E mode \in {"addNode", "addEdge", "delete"} : graph' = setMode(graph, mode)
    /\ UNCHANGED <<calc, rng, matrix, call>>

NextPage ==
    \/ HandleClick
    \/ SetMode
    \/ RemoveNode
    \/ RemoveEdge
    \/ Clear
    \/ SetDirected

\* the page edited through its clicks and the methods of its graph
SpecPage == InitGraph /\ [][NextPage]_vars

----------------------------------------------------------------------------
(* The results of the engine's routines.                                    *)

\* the threshold of analyzeEigenvalues for a zero or a negative eigenvalue
Epsilon == DDivInt(DOfInt(1), 1000)

\* |x - y| < eps
Near(x, y, eps) == DLt(DAbs(DSub(x, y)), eps)

\* numbers in non-increasing order
Descending(s) ==
    /\ \A i \in 1..Len(s) : s[i] # NaN
    /\ \A i \in 1..(Len(s) - 1) : DLe(s[i + 1], s[i])

\* s[1] + ... + s[k]
RECURSIVE SumTo(_, _)
SumTo(s, k) == IF k = 0 THEN DZero ELSE DAdd(SumTo(s, k - 1), s[k])

TriangleLaplacian == Doubles(<<<<2, -1, -1>>, <<-1, 2, -1>>, <<-1, -1, 2>>>>)

\* C1: calculateEigenvalues returns as many values as the order of its
\* matrix, in non-increasing order, whichever path produced them, and so
\* does qrAlgorithm.
ResultsSortedDescending ==
    call.op \in {"calculateEigenvalues", "qrAlgorithm"} =>
       /\ Len(call.ret.eigenvalues) = Len(call.arg)
       /\ Descending(call.ret.eigenvalues)

\* calculateEigenvalues returned from an order-5 deflation loop
SortedFromDeflationLoop ==
    /\ call.op = "calculateEigenvalues"
    /\ Len(call.arg) = 5
    /\ Len(call.ret.iterations) = 5
    /\ Len(call.ret.eigenvalues) = 5

\* C2: for the triangle Laplacian calculateEigenvalues returns 3, 3, 0
\* within 1e-3.
TriangleSpectrum ==
    (call.op = "calculateEigenvalues" /\ call.arg = TriangleLaplacian) =>
       /\ Len(call.ret.eigenvalues) = 3
       /\ Near(call.ret.eigenvalues[1], DOfInt(3), Epsilon)
       /\ Near(call.ret.eigenvalues[2], DOfInt(3), Epsilon)
       /\ Near(call.ret.eigenvalues[3], DZero, Epsilon)

\* C3: for the Laplacian of an undirected graph no eigenvalue returned is
\* below -epsilon.
UndirectedSpectrumNonNegative ==
    (call.op = "calculateGraphEigenvalues" /\ ~ call.arg.isDirected) =>
       \A i \in 1..Len(call.ret.eigenvalues) :
          ~ DLt(call.ret.eigenvalues[i], DNeg(Epsilon))

\* C4: for the Laplacian of an undirected graph the number of returned
\* eigenvalues of absolute value below epsilon is the number of connected
\* components getConnectedComponents finds.
ZeroEigenvaluesCountComponents ==
    (call.op = "calculateGraphEigenvalues" /\ ~ call.arg.isDirected) =>
       Cardinality({i \in 1..Len(call.ret.eigenvalues) :
                      DLt(DAbs(call.ret.eigenvalues[i]), Epsilon)})
          = Len(getConnectedComponents(call.arg))

\* the page analysed a graph of four nodes in two components
TwoComponentsAnalysed ==
    /\ call.op = "calculateGraphEigenvalues"
    /\ ~ call.arg.isDirected
    /\ Len(call.arg.nodes) = 4
    /\ Len(getConnectedComponents(call.arg)) = 2
    /\ Len(call.ret.eigenvalues) = 4

\* C5: for a matrix of order 1, 2 or 3 the sum of the eigenvalues
\* calculateEigenvalues returns is the trace of the matrix within tolerance.
SumIsTrace ==
    (call.op = "calculateEigenvalues" /\ Len(call.arg) \in 1..3) =>
       Near(SumTo(call.ret.eigenvalues, Len(call.ret.eigenvalues)),
            SumTo(Diagonal(call.arg), Len(call.arg)), Tolerance)

\* C6: eigenvalues2x2 of [[a,b],[c,d]] returns trace/2 twice if the
\* discriminant trace^2 - 4 det is negative, and otherwise
\* (trace + sqrt(discriminant))/2 and (trace - sqrt(discriminant))/2 in
\* descending order; [[1,-1],[-1,1]] gives 2, 0; the zero matrix 0, 0;
\* [[2,0],[0,3]] gives 3, 2.
ClosedForm2x2 ==
    call.op = "eigenvalues2x2" =>
       LET a == call.arg[1][1]
           b == call.arg[1][2]
           c == call.arg[2][1]
           d == call.arg[2][2]
           trace == DAdd(a, d)
           discriminant ==
              DSub(DMul(trace, trace), DMul(DOfInt(4), DSub(DMul(a, d), DMul(b, c))))
           result == call.ret.eigenvalues
       IN  /\ Len(result) = 2
           /\ IF DSign(discriminant) < 0
              THEN result = <<DDivInt(trace, 2), DDivInt(trace, 2)>>
              ELSE /\ result[1] = DDivInt(DAdd(trace, DSqrt(discriminant)), 2)
                   /\ result[2] = DDivInt(DSub(trace, DSqrt(discriminant)), 2)
                   /\ DLe(result[2], result[1])
           /\ call.arg = Doubles(<<<<1, -1>>, <<-1, 1>>>>) => result = <<DOfInt(2), DZero>>
           /\ call.arg = Doubles(<<<<0, 0>>, <<0, 0>>>>) => result = <<DZero, DZero>>
           /\ call.arg = Doubles(<<<<2, 0>>, <<0, 3>>>>) => result = <<DOfInt(3), DOfInt(2)>>

\* eigenvalues2x2 returned from its branch of a negative discriminant
ComplexPair2x2 ==
    /\ call.op = "eigenvalues2x2"
    /\ call.arg = Doubles(<<<<0, 1>>, <<-1, 0>>>>)
    /\ call.ret.eigenvalues = <<DZero, DZero>>

\* M[i][j] = 0 for every i > j
UpperTriangular(M) == \A i \in 1..Len(M), j \in 1..Len(M) : i > j => M[i][j] = DZero

\* M[i][j] = M[j][i] for every i, j
Symmetric(M) == \A i \in 1..Len(M), j \in 1..Len(M) : M[i][j] = M[j][i]

\* C7: qrDecomposition of the 2x2 identity returns Q the identity and R the
\* identity.
QrOfIdentity ==
    (call.op = "qrDecomposition" /\ call.arg = Identity(2)) =>
       call.ret.Q = Identity(2) /\ call.ret.R = Identity(2)

\* C8: the Q and R qrDecomposition returns multiply, Q by R, to its input
\* within tolerance.
QrRoundTrip ==
    call.op = "qrDecomposition" =>
       LET product == matrixMultiply(call.ret.Q, call.ret.R)
       IN  \A i \in 1..Len(call.arg), j \in 1..Len(call.arg) :
              Near(product[i][j], call.arg[i][j], Tolerance)

\* C9: after a call of any routine of the engine every entry of the matrix
\* the caller passed is as it was before the call.
ArgumentUnchanged ==
    call.op \in {"calculateEigenvalues", "eigenvalues2x2", "eigenvalues3x3",
                 "eigenvalues4x4", "findAllEigenvalues", "powerIteration",
                 "deflateMatrix", "qrDecomposition", "qrAlgorithm", "matrixMultiply"} =>
       matrix = call.arg

\* qrDecomposition reflected its working array and the caller's matrix is
\* as it was
ReflectedOnCopy ==
    /\ call.op = "qrDecomposition"
    /\ Len(call.arg) = 3
    /\ call.ret.reflections >= 2
    /\ call.ret.R # call.arg
    /\ matrix = call.arg

\* C10: after a call of powerIteration or calculateEigenvalues the
\* calculator object is in the state it had before the call.
CalculatorUnchanged ==
    call.op \in {"powerIteration", "calculateEigenvalues"} => calc = call.before

\* the eigenvalues of k power iterations with the cap, one after the other on
\* the calculator c, the matrix deflated by each pair found but the last
RECURSIVE PowerChain(_, _, _, _, _)
PowerChain(c, A, r, cap, k) ==
    IF k = 0 THEN <<>>
    ELSE LET result == powerIteration(c, A, cap, Random(r, Len(A)))
         IN  <<result.eigenvalue>>
                \o PowerChain(After(c, result),
                              IF k > 1
                              THEN deflateMatrix(A, result.eigenvalue, result.eigenvector)
                              ELSE A,
                              r + Len(A), cap, k - 1)

EmptyInputEmptyResult ==
    /\ (call.op = "calculateEigenvalues" /\ call.arg = <<>>) =>
          /\ call.ret.eigenvalues = <<>>
          /\ call.ret.iterations = <<>>
          /\ calc = call.before
    /\ (call.op = "calculateGraphEigenvalues" /\ call.arg.nodes = <<>>) =>
          /\ call.ret.eigenvalues = <<>>
          /\ call.ret.laplacian = <<>>
          /\ call.ret.calls = <<>>
          /\ calc = call.before

\* the page analysed the graph without nodes
EmptyGraphAnalysed ==
    /\ call.op = "calculateGraphEigenvalues"
    /\ call.arg = NewGraph
    /\ call.ret.eigenvalues = <<>>

\* the normalized vector after k passes of a power iteration on A from v0
\* that breaks in none of them
RECURSIVE Iterate(_, _, _)
Iterate(A, v0, k) ==
    IF k = 0 THEN v0
    ELSE LET w == MatVec(A, Iterate(A, v0, k - 1))
         IN  Scale(w, Norm(w))

\* the Rayleigh estimate of pass k (from 1)
Estimate(A, v0, k) ==
    dotProduct(Iterate(A, v0, k - 1), MatVec(A, Iterate(A, v0, k - 1)))

\* pass k finds a new vector of norm below tolerance
Degenerate(A, v0, k) == DLt(Norm(MatVec(A, Iterate(A, v0, k - 1))), Tolerance)

\* pass k, after the first, finds an estimate within tolerance of the one
\* of pass k - 1
Converged(A, v0, k) ==
    k >= 2 /\ DLt(DAbs(DSub(Estimate(A, v0, k), Estimate(A, v0, k - 1))), Tolerance)

\* C13: powerIteration makes at most maxIterations passes; it stops at the
\* first pass that finds a norm below tolerance, returning that pass's
\* estimate with the vector normalized last, or that, after the first pass,
\* finds an estimate within tolerance of the one before; otherwise it
\* returns the estimate and the vector of the last pass.
PowerIterationStops ==
    call.op = "powerIteration" =>
       LET v0 == Scale(call.seed, Norm(call.seed))
           p == call.ret.iterations
       IN  /\ p <= call.cap
           /\ \A k \in 1..(p - 1) :
                 ~ Degenerate(call.arg, v0, k) /\ ~ Converged(call.arg, v0, k)
           /\ p < call.cap =>
                 Degenerate(call.arg, v0, p) \/ Converged(call.arg, v0, p)
           /\ p = 0 => call.ret.eigenvalue = DZero /\ call.ret.eigenvector = v0
           /\ p >= 1 =>
                 /\ call.ret.eigenvalue = Estimate(call.arg, v0, p)
                 /\ call.ret.eigenvector
                       = IF Degenerate(call.arg, v0, p)
                         THEN Iterate(call.arg, v0, p - 1)
                         ELSE Iterate(call.arg, v0, p)

\* powerIteration stopped on convergence before its cap
ConvergedBeforeCap ==
    /\ call.op = "powerIteration"
    /\ call.cap = 3
    /\ call.ret.iterations = 2
    /\ call.ret.done
    /\ call.ret.eigenvalue # DZero

\* the array after k passes A <- R Q of the QR algorithm
RECURSIVE QrIterate(_, _, _)
QrIterate(c, A, k) ==
    IF k = 0 THEN A
    ELSE LET qr == qrDecomposition(c, QrIterate(c, A, k - 1))
         IN  matrixMultiply(qr.R, qr.Q)

\* every entry of the first subdiagonal is within tolerance
SubdiagonalSmall(c, A) ==
    \A i \in 1..(Len(A) - 1) : ~ DLt(c.tolerance, DAbs(A[i + 1][i]))

\* C14: qrAlgorithm makes at most maxIterations steps A <- R Q, stops at the
\* first pass at whose start the first subdiagonal of A is within tolerance,
\* and returns, converged or not, the diagonal of the current A sorted
\* descending.
QrAlgorithmDegrades ==
    call.op = "qrAlgorithm" =>
       LET k == call.ret.iterations
       IN  /\ k <= call.cap
           /\ \A j \in 0..(k - 1) :
                 ~ SubdiagonalSmall(call.before, QrIterate(call.before, call.arg, j))
           /\ k < call.cap =>
                 SubdiagonalSmall(call.before, QrIterate(call.before, call.arg, k))
           /\ call.ret.eigenvalues
                 = SortDesc(Diagonal(QrIterate(call.before, call.arg, k)))
           /\ Len(call.ret.eigenvalues) = Len(call.arg)

\* qrAlgorithm used up its cap without convergence
CapExhausted ==
    /\ call.op = "qrAlgorithm"
    /\ call.cap = 3
    /\ call.ret.iterations = 3
    /\ ~ call.ret.converged
    /\ Len(call.ret.eigenvalues) = 3

\* C15: deflateMatrix(A, lambda, v) returns a new n x n matrix D with
\* D[i][j] = A[i][j] - lambda * v[i] * v[j], symmetric if A is.
DeflationSubtractsOuterProduct ==
    call.op = "deflateMatrix" =>
       LET n == Len(call.arg)
           D == call.ret
       IN  /\ Len(D) = n
           /\ \A i \in 1..n :
                 /\ Len(D[i]) = n
                 /\ \A j \in 1..n :
                       D[i][j] = DSub(call.arg[i][j],
                                      DMul(call.eigenvalue,
                                           DMul(call.eigenvector[i], call.eigenvector[j])))
           /\ Symmetric(call.arg) => Symmetric(D)
           /\ matrix = call.arg

\* deflateMatrix returned a matrix other than its symmetric argument
SymmetricDeflated ==
    /\ call.op = "deflateMatrix"
    /\ Len(call.arg) = 3
    /\ Symmetric(call.arg)
    /\ call.eigenvalue # DZero
    /\ call.ret # call.arg
    /\ Symmetric(call.ret)

\* C17: qrDecomposition of a matrix of order n applies at most n - 1
\* reflections, and none for a column whose entries below the diagonal are
\* zero: an upper-triangular input comes back as R with Q the identity.
QrSkipsReducedColumns ==
    call.op = "qrDecomposition" =>
       /\ call.ret.reflections <= Max(Len(call.arg) - 1, 0)
       /\ UpperTriangular(call.arg) =>
             /\ call.ret.reflections = 0
             /\ call.ret.R = call.arg
             /\ call.ret.Q = Identity(Len(call.arg))

\* C20: powerIteration returns the eigenvalue and the eigenvector that a
\* call with the same matrix, cap and random vector returns on a calculator
\* as constructed, whatever previousEigenvalue an earlier call left.
PowerIterationDeterministic ==
    call.op = "powerIteration" =>
       LET fresh == powerIteration(NewCalculator, call.arg, call.cap, call.seed)
       IN  /\ call.ret.eigenvalue = fresh.eigenvalue
           /\ call.ret.eigenvector = fresh.eigenvector

\* powerIteration ran on a calculator holding the estimate of an earlier
\* call and left another
StaleEstimateOverwritten ==
    /\ call.op = "powerIteration"
    /\ call.cap >= 1
    /\ call.before.previousEigenvalue # Undefined
    /\ call.ret.previousEigenvalue # call.before.previousEigenvalue

----------------------------------------------------------------------------
(* The graph's matrices in every state of the editing.                      *)

\* C16: in every state reached by addNode, addEdge, removeNode, removeEdge,
\* clear and setDirected, getLaplacianMatrix returns an n x n matrix with the
\* row sum of the adjacency matrix on the diagonal and minus the adjacency
\* entry elsewhere, so that every row of it sums to zero.
LaplacianIsDegreeMinusAdjacency ==
    LET n == Len(graph.nodes)
        L == getLaplacianMatrix(graph)
        adjacency == getAdjacencyMatrix(graph)
    IN  /\ Len(L) = n
        /\ \A i \in 1..n :
              /\ Len(L[i]) = n
              /\ L[i][i] = RowSum(adjacency[i], n)
              /\ \A j \in 1..n : j # i => L[i][j] = - adjacency[i][j]
              /\ RowSum(L[i], n) = 0

\* a directed graph of three nodes with two edges, one of them removed before
LaplacianOfEditedGraph ==
    /\ graph.isDirected
    /\ Len(graph.nodes) = 3
    /\ Len(graph.edges) = 2
    /\ graph.edgeIdCounter = 3
    /\ getLaplacianMatrix(graph)[1][1] = 2

\* C18: in every state of the editing the adjacency matrix holds only 0 and
\* 1, its diagonal is zero, and it is symmetric while the graph is
\* undirected, and then the Laplacian is symmetric too.
AdjacencyIsSymmetricWhenUndirected ==
    LET n == Len(graph.nodes)
        adjacency == getAdjacencyMatrix(graph)
        L == getLaplacianMatrix(graph)
    IN  /\ \A i \in 1..n, j \in 1..n : adjacency[i][j] \in {0, 1}
        /\ \A i \in 1..n : adjacency[i][i] = 0
        /\ ~ graph.isDirected =>
              \A i \in 1..n, j \in 1..n :
                 adjacency[i][j] = adjacency[j][i] /\ L[i][j] = L[j][i]

\* an undirected graph whose only edge between two nodes was added while the
\* graph was directed
UndirectedAfterToggle ==
    /\ ~ graph.isDirected
    /\ Len(graph.edges) = 1
    /\ graph.edgeIdCounter = 1
    /\ graph.edges[1].from > graph.edges[1].to
    /\ getAdjacencyMatrix(graph)[1][2] = 1

\* C19: in every state of the editing no two edges join the same unordered
\* pair of nodes while the graph is undirected, and no two edges have the
\* same from and to while it is directed.
NoDuplicateEdge ==
    \A k \in 1..Len(graph.edges), l \in 1..Len(graph.edges) :
       k # l =>
          IF graph.isDirected
          THEN <<graph.edges[k].from, graph.edges[k].to>>
                  # <<graph.edges[l].from, graph.edges[l].to>>
          ELSE {graph.edges[k].from, graph.edges[k].to}
                  # {graph.edges[l].from, graph.edges[l].to}

\* the ids of the nodes of the graph
CurrentNodes(g) == {g.nodes[i] : i \in 1..Len(g.nodes)}

\* the ids a path of edges, read in either direction, joins to one of ids
RECURSIVE Reach(_, _)
Reach(g, ids) ==
    LET next == ids \cup {g.edges[k].to : k \in {l \in 1..Len(g.edges) :
                                                  g.edges[l].from \in ids}}
                    \cup {g.edges[k].from : k \in {l \in 1..Len(g.edges) :
                                                    g.edges[l].to \in ids}}
    IN  IF next = ids THEN ids ELSE Reach(g, next)

\* C21: in every state of the page getConnectedComponents returns the
\* partition of the current nodes into connected components, the edges read
\* as undirected: every entry of a component is a current node, every node
\* is in exactly one component, once, and two nodes share a component iff a
\* path of edges joins them.
ComponentsArePartition ==
    LET components == getConnectedComponents(graph)
        Entries == UNION {{<<c, k>> : k \in 1..Len(components[c])} :
                             c \in 1..Len(components)}
        Places(id) == {p \in Entries : components[p[1]][p[2]] = id}
        Together(a, b) == \E p \in Places(a), q \in Places(b) : p[1] = q[1]
    IN  /\ \A c \in 1..Len(components) : \A k \in 1..Len(components[c]) :
              components[c][k] \in CurrentNodes(graph)
        /\ \A id \in CurrentNodes(graph) : Cardinality(Places(id)) = 1
        /\ \A a \in CurrentNodes(graph), b \in CurrentNodes(graph) :
              Together(a, b) <=> b \in Reach(graph, {a})

\* the all-zero matrix of order n
ZeroMatrix(n) == Array([i \in 1..n |-> Array([j \in 1..n |-> DZero])])

\* k power iterations with the cap, one after the other on the calculator c
\* from position r of the random stream, each stop in the first pass on a
\* norm below tolerance with estimate 0 and the normalized start vector, and
\* each deflation by the pair found returns A again
RECURSIVE ZeroChain(_, _, _, _, _)
ZeroChain(c, A, r, cap, k) ==
    \/ k = 0
    \/ LET seed == Random(r, Len(A))
           v0 == Scale(seed, Norm(seed))
           result == powerIteration(c, A, cap, seed)
       IN  /\ Norm(MatVec(A, v0)) = DZero
           /\ Degenerate(A, v0, 1)
           /\ result.iterations = 1
           /\ result.done
           /\ result.eigenvalue = DZero
           /\ result.eigenvector = v0
           /\ deflateMatrix(A, result.eigenvalue, result.eigenvector) = A
           /\ ZeroChain(After(c, result), A, r + Len(A), cap, k - 1)

\* C22: for the all-zero matrix of order n >= 4 calculateEigenvalues returns
\* n zeros: each of its n power iterations stops in its first pass on the
\* norm below tolerance with estimate 0, and each deflation returns the
\* all-zero matrix again.
ZeroMatrixAllZeros ==
    (/\ call.op = "calculateEigenvalues"
     /\ Len(call.arg) >= 4
     /\ call.arg = ZeroMatrix(Len(call.arg))) =>
       LET n == Len(call.arg)
       IN  /\ call.ret.eigenvalues = Array([k \in 1..n |-> DZero])
           /\ call.ret.iterations = Array([k \in 1..n |-> 1])
           /\ ZeroChain(call.before, call.arg, call.drawn,
                        IF n = 4 THEN 200 ELSE 100, n)

\* calculateEigenvalues returned for the all-zero matrix of order 5 after
\* five power iterations
ZeroOfFiveSolved ==
    /\ call.op = "calculateEigenvalues"
    /\ call.arg = ZeroMatrix(5)
    /\ Len(call.ret.eigenvalues) = 5
    /\ call.ret.iterations[5] = 1

====
